---- MODULE Spec2Model ----
(***************************************************************************)
(* Model of workflow_gallery_scraper.py: scrape_workflow (the three        *)
(* extraction strategies, the synthetic fallback, node and connection      *)
(* normalisation, the result envelope) and generate_synthetic_workflow.    *)
(*                                                                         *)
(* Python values are tagged records.  A dict is an insertion-ordered       *)
(* sequence of entries [k, v] with distinct keys, as in CPython.  A        *)
(* str whose content is JSON text is Text(parse), where parse is what      *)
(* json.loads makes of it (BadJson when it is malformed).  An operator     *)
(* that can raise returns Ok(v) or Raise.                                  *)
(*                                                                         *)
(* Left out of the envelope: description, url, tags, category, version,    *)
(* settings and the timestamps (lines 117-130, 184-192, 198); they never   *)
(* raise on a dict payload and no property below reads them.               *)
(***************************************************************************)
EXTENDS Integers, Sequences, FiniteSets, TLC

\* ------------------------------------------------------------ values
None == [t |-> "none"]
Bool(b) == [t |-> "bool", b |-> b]
Num(n) == [t |-> "num", n |-> n]
Str(s) == [t |-> "str", s |-> s]
List(items) == [t |-> "list", items |-> items]
Dict(entries) == [t |-> "dict", entries |-> entries]
BadJson == [t |-> "badjson"]
Text(parse) == [t |-> "text", parse |-> parse]
E(k, v) == [k |-> k, v |-> v]

Ok(v) == [ok |-> TRUE, v |-> v]
\* what a strategy's try block ends in: Found(v) with a payload, None without
\* one (an exception caught by its own except clause included), Escaped when
\* an exception leaves the block
Found(v) == [t |-> "found", v |-> v]
Escaped == [t |-> "raise"]
Raise == [ok |-> FALSE]

\* bool(v)
Truthy(v) ==
  CASE v.t = "none" -> FALSE
    [] v.t = "bool" -> v.b
    [] v.t = "num" -> v.n # 0
    [] v.t = "str" -> v.s # ""
    [] v.t = "text" -> TRUE
    [] v.t = "list" -> Len(v.items) > 0
    [] v.t = "dict" -> Len(v.entries) > 0

\* k in d, d a dict
Has(d, k) == \E i \in 1..Len(d.entries) : d.entries[i].k = k

\* d[k], d a dict holding k
Item(d, k) == d.entries[CHOOSE i \in 1..Len(d.entries) : d.entries[i].k = k].v

\* d.get(k, default), d a dict
Get(d, k, default) == IF Has(d, k) THEN Item(d, k) ELSE default

\* d[k] = v, d a dict: an existing key keeps its place
SetItem(d, k, v) ==
  IF Has(d, k)
  THEN Dict([i \in 1..Len(d.entries) |->
               IF d.entries[i].k = k THEN E(k, v) ELSE d.entries[i]])
  ELSE Dict(Append(d.entries, E(k, v)))

\* d.setdefault(k, v), d a dict
SetDefault(d, k, v) == IF Has(d, k) THEN d ELSE SetItem(d, k, v)

\* k in v for any value: TypeError on a non-container; membership on a list;
\* substring on a str (the sampled strings hold a key only when equal to it)
In(k, v) ==
  CASE v.t = "dict" -> Ok(Has(v, k))
    [] v.t = "list" -> Ok(\E i \in 1..Len(v.items) : v.items[i] = Str(k))
    [] v.t = "str" -> Ok(v.s = k)
    [] OTHER -> Raise

\* the items a for loop visits: a dict yields its keys; a non-iterable raises
Iter(v) ==
  CASE v.t = "list" -> Ok(v.items)
    [] v.t = "dict" -> Ok([i \in 1..Len(v.entries) |-> Str(v.entries[i].k)])
    [] v.t = "str" /\ v.s = "" -> Ok(<<>>)
    [] v.t = "str" /\ v.s # "" -> Ok(<<Str("c")>>)
    [] OTHER -> Raise

\* str(v) inside an f-string
PyStr(v) ==
  CASE v.t = "str" -> v.s
    [] v.t = "num" -> ToString(v.n)
    [] v.t = "none" -> "None"
    [] OTHER -> "<repr>"

\* json.loads(x): TypeError unless x is a str, JSONDecodeError when malformed
JsonLoads(x) ==
  IF x.t = "text" /\ x.parse.t # "badjson" THEN Ok(x.parse) ELSE Raise

\* len(v)
PyLen(v) ==
  CASE v.t = "list" -> Ok(Len(v.items))
    [] v.t = "dict" -> Ok(Len(v.entries))
    [] v.t = "str" -> Ok(IF v.s = "" THEN 0 ELSE 1)
    [] OTHER -> Raise

\* ------------------------------------------------------------ normalisation
\* str(uuid.uuid4()) for the k-th node of a call whose random state is seed
Uuid(seed, k) == Str("uuid-" \o ToString(seed + k))

\* lines 148-154: the metadata sub-object of a node, read from its top-level keys
NodeMetadata(node) ==
  Dict(<< E("description", Get(node, "description", Str(""))),
          E("displayName", Get(node, "displayName", Item(node, "name"))),
          E("version", Get(node, "version", Str("1.0"))),
          E("isCustom", Get(node, "isCustom", Bool(FALSE))),
          E("credentials", Get(node, "credentials", Dict(<<>>))) >>)

\* lines 141-154, one pass of the loop body on a dict node
EnhanceNode(node, fresh) ==
  LET n1 == SetDefault(node, "id", fresh)
      n2 == SetDefault(n1, "name", Str("Node " \o PyStr(Get(n1, "id", Str("unknown")))))
      n3 == SetDefault(n2, "type", Str("unknown"))
      n4 == SetDefault(n3, "parameters", Dict(<<>>))
      n5 == SetDefault(n4, "position", List(<<Num(0), Num(0)>>))
  IN SetItem(n5, "metadata", NodeMetadata(n5))

\* lines 138-154: raises on a payload that is no container, on nodes that
\* cannot be iterated, and on a node that is no dict (setdefault)
EnhanceNodes(wd, seed) ==
  LET has == In("nodes", wd) IN
  IF ~has.ok THEN Raise
  ELSE IF ~has.v THEN Ok(wd)
  ELSE IF wd.t # "dict" THEN Raise
  ELSE LET nodes == Item(wd, "nodes")
           it == Iter(nodes)
       IN IF ~it.ok THEN Raise
          ELSE IF \E k \in 1..Len(it.v) : it.v[k].t # "dict" THEN Raise
          ELSE IF nodes.t = "list"
               THEN Ok(SetItem(wd, "nodes",
                         List([k \in 1..Len(it.v) |-> EnhanceNode(it.v[k], Uuid(seed, k))])))
               ELSE Ok(wd)

\* lines 162-172: one connection entry rebuilt from a dict target
EnhanceTarget(target) ==
  Dict(<< E("node", Get(target, "node", Str(""))),
          E("type", Get(target, "type", Str("main"))),
          E("index", Get(target, "index", Num(0))),
          E("sourceOutput", Get(target, "sourceOutput", Str("main"))),
          E("targetInput", Get(target, "targetInput", Str("main"))),
          E("metadata", Dict(<< E("description", Get(target, "description", Str(""))),
                                E("condition", Get(target, "condition", None)) >>)) >>)

\* mutant of EnhanceTargets: each entry is put in front of the list
EnhanceTargetsReversed(targets) ==
  List([k \in 1..Len(targets) |-> EnhanceTarget(targets[Len(targets) + 1 - k])])

\* lines 160-173: the list built for one source key
EnhanceTargets(targets) ==
  List([k \in 1..Len(targets) |-> EnhanceTarget(targets[k])])

\* lines 157-174: raises when connections has no items(), when a target list
\* cannot be iterated, and when a target is no dict (get)
EnhanceConnections(wd) ==
  LET has == In("connections", wd) IN
  IF ~has.ok THEN Raise
  ELSE IF ~has.v THEN Ok(wd)
  ELSE IF wd.t # "dict" THEN Raise
  ELSE LET conns == Item(wd, "connections") IN
       IF conns.t # "dict" THEN Raise
       ELSE IF \E s \in 1..Len(conns.entries) :
                 LET it == Iter(conns.entries[s].v) IN
                 \/ ~it.ok
                 \/ \E k \in 1..Len(it.v) : it.v[k].t # "dict"
            THEN Raise
            ELSE Ok(SetItem(wd, "connections",
                      Dict([s \in 1..Len(conns.entries) |->
                              E(conns.entries[s].k,
                                EnhanceTargets(Iter(conns.entries[s].v).v))])))

\* lines 137-174 on a payload: node pass, then connection pass
Normalize(wd, seed) ==
  LET a == EnhanceNodes(wd, seed) IN
  IF ~a.ok THEN Raise ELSE EnhanceConnections(a.v)

RECURSIVE SumLens(_)
\* line 195: sum(len(connections) for connections in d.values())
SumLens(entries) ==
  IF entries = <<>> THEN 0
  ELSE PyLen(Head(entries).v).v + SumLens(Tail(entries))

\* line 194
NodeCount(wd) == PyLen(Get(wd, "nodes", List(<<>>))).v

\* mutant of ConnectionCount: the source keys are counted, not their entries
ConnectionCountKeys(wd) == Len(Get(wd, "connections", Dict(<<>>)).entries)

\* line 195
ConnectionCount(wd) == SumLens(Get(wd, "connections", Dict(<<>>)).entries)

\* line 196
HasCustomNodes(wd) ==
  LET it == Iter(Get(wd, "nodes", List(<<>>))).v IN
  \E k \in 1..Len(it) : Truthy(Get(it[k], "isCustom", Bool(FALSE)))

\* mutant of Assemble: the payload's version is read by subscript, so a
\* payload without one raises KeyError
AssembleStrict(workflow_id, title, wd) ==
  IF wd.t # "dict" \/ ~Has(wd, "version") THEN Raise
  ELSE Ok([t |-> "record",
           id |-> workflow_id,
           name |-> title,
           workflow |-> wd,
           stats |-> [nodeCount |-> NodeCount(wd),
                      connectionCount |-> ConnectionCount(wd),
                      hasCustomNodes |-> HasCustomNodes(wd)]])

\* lines 177-200: the envelope; get() raises on a payload that is no dict
Assemble(workflow_id, title, wd) ==
  IF wd.t # "dict" THEN Raise
  ELSE Ok([t |-> "record",
           id |-> workflow_id,
           name |-> title,
           workflow |-> wd,
           stats |-> [nodeCount |-> NodeCount(wd),
                      connectionCount |-> ConnectionCount(wd),
                      hasCustomNodes |-> HasCustomNodes(wd)]])

\* ------------------------------------------------------------ identifiers
\* An identifier is the sequence of its characters.
Digits == <<"0", "1", "2", "3", "4", "5", "6", "7", "8", "9">>

DigitVal(c) == (CHOOSE d \in 1..10 : Digits[d] = c) - 1

IsDigit(c) == \E d \in 1..10 : Digits[d] = c

RECURSIVE IdStr(_)
\* the identifier as one str
IdStr(id) == IF id = <<>> THEN "" ELSE Head(id) \o IdStr(Tail(id))

RECURSIVE DecimalValue(_)
DecimalValue(id) ==
  IF id = <<>> THEN 0
  ELSE 10 * DecimalValue(SubSeq(id, 1, Len(id) - 1)) + DigitVal(id[Len(id)])

\* int(workflow_id): ValueError on the empty string and on a non-digit
\* (the sampled identifiers hold digits and letters only)
PyInt(id) ==
  IF id # <<>> /\ \A k \in 1..Len(id) : IsDigit(id[k])
  THEN Ok(DecimalValue(id)) ELSE Raise

\* ------------------------------------------------------------ generator
\* lines 213-216
node_types ==
  << "Function", "IF", "Switch", "Set", "Email", "Slack", "HTTP",
     "Webhook", "Postgres", "MySQL", "MongoDB", "Redis", "S3" >>

\* line 218: random.randint(3, 6)
MinNodes == 3
MaxNodes == 6

\* lines 225-234: node i (0-based), its type already drawn
SyntheticNode(i, node_type, n) ==
  Dict(<< E("id", Str("node_" \o ToString(i))),
          E("name", Str(node_type \o " " \o ToString(i + 1))),
          E("type", Str(node_type)),
          E("parameters", Dict(<< E("param1", Str("value" \o ToString(i))),
                                  E("param2", Num(n)) >>)),
          E("position", List(<<Num(i * 200), Num(n * 100)>>)) >>)

\* lines 238-243: the entry of source node i (0-based)
SyntheticLink(i) ==
  E("node_" \o ToString(i),
    List(<< Dict(<< E("node", Str("node_" \o ToString(i + 1))),
                    E("type", Str("main")),
                    E("index", Num(0)) >>) >>))

\* mutant of SyntheticConnections: range(num_nodes), the last node linked too
SyntheticConnectionsAll(num_nodes) ==
  Dict([k \in 1..num_nodes |-> SyntheticLink(k - 1)])

\* lines 238-243: range(num_nodes - 1)
SyntheticConnections(num_nodes) ==
  Dict([k \in 1..(num_nodes - 1) |-> SyntheticLink(k - 1)])

\* lines 209-255, with the random draws as arguments: num_nodes, and
\* types[k] the index in node_types drawn for node k-1
generate_synthetic_workflow(workflow_id, num_nodes, types) ==
  LET n == PyInt(workflow_id) IN
  IF ~n.ok THEN Raise
  ELSE Ok(Dict(<<
         E("id", Str(IdStr(workflow_id))),
         E("name", Str("Workflow " \o IdStr(workflow_id))),
         E("nodes", List([k \in 1..num_nodes |->
                            SyntheticNode(k - 1, node_types[types[k]], n.v)])),
         E("connections", SyntheticConnections(num_nodes)),
         E("active", Bool(TRUE)),
         E("settings", Dict(<< E("saveManualExecutions", Bool(TRUE)),
                               E("callerPolicy", Str("any")) >>)) >>))

\* ------------------------------------------------------------ page content
\* One occurrence of a state variable name in a script body.  assign says how
\* the text after it meets the pattern  NAME\s*=\s*({.*?});  of lines 66, 79:
\*   "none"   no  = {  follows, or no  };  closes it: the search finds nothing
\*   "end"    the first  };  after the brace is the end of the object literal
\*   "inner"  a  };  occurs earlier, inside a string value of the literal
\* literal is the object literal as written in the page.
NoOcc == [seen |-> FALSE, assign |-> "none", literal |-> Text(BadJson)]
Occ(assign, literal) == [seen |-> TRUE, assign |-> assign, literal |-> literal]

\* lines 66-67, 79-80: group(1) of the lazy search, None when nothing matches.
\* Cut at an inner  };  the group ends inside a string: malformed JSON.
ReSearch(occ) ==
  CASE occ.assign = "none" -> None
    [] occ.assign = "end" -> occ.literal
    [] occ.assign = "inner" -> Text(BadJson)

\* A script element: its type attribute and its .string (None when the element
\* has no single text child); w, n: the occurrences of window.__WORKFLOW__ and
\* window.__NUXT__ in the text; json: the whole text as json.loads reads it.
Script(type, string) == [type |-> type, string |-> string]
Body(w, n, json) == [t |-> "body", w |-> w, n |-> n, json |-> json]
ScriptA(assign, literal) == Script("js", Body(Occ(assign, Text(literal)), NoOcc, Text(BadJson)))
ScriptB(assign, literal) == Script("js", Body(NoOcc, Occ(assign, Text(literal)), Text(BadJson)))
ScriptLd(parse) == Script("application/ld+json", Body(NoOcc, NoOcc, Text(parse)))

\* sampled nodes and connection entries
NodeTypeOnly == Dict(<< E("type", Str("HTTP")) >>)
NodeFull ==
  Dict(<< E("id", Str("n1")), E("name", Str("Start")), E("type", Str("Webhook")),
          E("parameters", Dict(<< E("path", Str("/hook")) >>)),
          E("position", List(<<Num(10), Num(20)>>)),
          E("isCustom", Bool(TRUE)) >>)
NodeEmptyId == Dict(<< E("id", Str("")), E("name", Str("Blank")) >>)
TargetMin == Dict(<< E("node", Str("n2")) >>)
TargetDesc ==
  Dict(<< E("node", Str("n1")), E("type", Str("error")), E("index", Num(1)),
          E("description", Str("on failure")), E("condition", Str("x > 1")) >>)

\* sampled payloads
WfClean ==
  Dict(<< E("name", Str("A")),
          E("nodes", List(<<NodeFull, NodeTypeOnly>>)),
          E("connections", Dict(<< E("n1", List(<<TargetMin>>)) >>)) >>)
WfDesc ==
  Dict(<< E("nodes", List(<<NodeTypeOnly>>)),
          E("connections", Dict(<< E("n2", List(<<TargetDesc, TargetMin>>)),
                                   E("n1", List(<<TargetMin>>)) >>)) >>)
WfEmptyId == Dict(<< E("nodes", List(<<NodeEmptyId>>)) >>)
\* connections as n8n exports them: source -> output name -> list of lists
WfExport ==
  Dict(<< E("nodes", List(<<NodeFull>>)),
          E("connections",
            Dict(<< E("n1", Dict(<< E("main", List(<< List(<<TargetMin>>) >>)) >>)) >>)) >>)
WfNameOnly == Dict(<< E("name", Str("B")) >>)
WfEmpty == Dict(<<>>)

NuxtState(items) == Dict(<< E("data", List(items)) >>)
LdBlock(code) == Dict(<< E("mainEntity", Dict(<< E("code", code) >>)) >>)

\* sampled script elements
ScriptPool ==
  << Script("js", None),
     ScriptA("end", WfClean),
     ScriptA("inner", WfDesc),
     ScriptA("none", BadJson),
     ScriptA("end", WfEmpty),
     ScriptB("end", NuxtState(<< Dict(<< E("layout", Str("default")) >>),
                                 Dict(<< E("workflow", WfEmptyId) >>),
                                 Dict(<< E("workflow", WfClean) >>) >>)),
     ScriptB("end", NuxtState(<< Dict(<< E("workflow", WfDesc) >>) >>)),
     ScriptB("end", Dict(<< E("data", Num(1)) >>)),
     ScriptLd(LdBlock(Text(WfNameOnly))),
     ScriptLd(LdBlock(Text(WfExport))),
     ScriptLd(Dict(<< E("mainEntity", Num(1)) >>)),
     ScriptLd(BadJson) >>

\* the title element: absent, or its text as  (.+?)\s*\|\s*n8n  of line 113
\* reads it: name before the site suffix when the suffix is there
TitleTag(name, suffix) == [t |-> "title", name |-> name, suffix |-> suffix]
TitlePool == << TitleTag("My Flow", TRUE), TitleTag("Untitled", FALSE) >>

WorkflowIds == { <<"4", "2">>, <<"7", "b">> }

UuidSeeds == {0, 100}

\* the indices in node_types that random.choice is let draw
TypeSample == {1, 13}

\* the sampled outcomes of the num_nodes draws of random.choice: one index for
\* the odd-numbered draws and one for the even-numbered
TypeDraws(num_nodes) ==
  { [k \in 1..num_nodes |-> IF k % 2 = 1 THEN a ELSE b] : a, b \in TypeSample }

\* longest sequence of script elements in a page
MaxScripts == 2

\* ------------------------------------------------------------ scrape_workflow
VARIABLES
  workflow_id,    \* the argument
  response,       \* what requests.get gives: a status and a page, or an exception
  pc,             \* the position in scrape_workflow
  idx,            \* the script the current loop is at (1-based)
  workflow_data,  \* line 59
  title,          \* line 104
  result          \* the value returned, once pc = "done"

vars == <<workflow_id, response, pc, idx, workflow_data, title, result>>

Page(scripts, title_tag) == [scripts |-> scripts, title |-> title_tag]
Fetched(status, page) == [kind |-> "response", status |-> status, page |-> page]
FetchError == [kind |-> "exception", status |-> 0, page |-> Page(<<>>, None)]

script_tags == response.page.scripts

Init ==
  /\ workflow_id \in WorkflowIds
  /\ \/ \E n \in 0..MaxScripts :
          \E pick \in [1..n -> 1..Len(ScriptPool)] :
            \E tp \in 1..Len(TitlePool) :
              response = Fetched(200, Page([k \in 1..n |-> ScriptPool[pick[k]]],
                                           TitlePool[tp]))
     \/ response = Fetched(404, Page(<<>>, None))
     \/ response = FetchError
  /\ pc = "fetch"
  /\ idx = 1
  /\ workflow_data = None
  /\ title = ""
  /\ result = None

\* lines 56, 205-207: return None
ReturnNone ==
  /\ pc' = "done"
  /\ result' = None

\* lines 51-59
Fetch ==
  /\ pc = "fetch"
  /\ IF response.kind = "exception" \/ response.status # 200
     THEN ReturnNone
     ELSE pc' = "method1" /\ result' = result
  /\ UNCHANGED <<workflow_id, response, idx, workflow_data, title>>

\* mutant of BlobA: no except clause around json.loads
BlobAUncaught(script) ==
  IF script.string.t = "none" \/ ~script.string.w.seen THEN None
  ELSE LET m == ReSearch(script.string.w) IN
       IF m.t = "none" THEN None
       ELSE LET r == JsonLoads(m) IN IF r.ok THEN Found(r.v) ELSE Escaped

\* lines 64-72 on one script: the payload it yields, None when the script is
\* skipped, has no match, or json.loads raises (caught at line 71)
BlobA(script) ==
  IF script.string.t = "none" \/ ~script.string.w.seen THEN None
  ELSE LET m == ReSearch(script.string.w) IN
       IF m.t = "none" THEN None
       ELSE LET r == JsonLoads(m) IN IF r.ok THEN Found(r.v) ELSE None

\* lines 63-72: one iteration of the loop; break at the first payload parsed
Method1 ==
  /\ pc = "method1"
  /\ IF idx > Len(script_tags)
     THEN /\ pc' = "method2"
          /\ idx' = 1
          /\ workflow_data' = workflow_data
          /\ result' = result
     ELSE LET got == BlobA(script_tags[idx]) IN
          CASE got.t = "none" ->
                 /\ pc' = pc
                 /\ idx' = idx + 1
                 /\ UNCHANGED <<workflow_data, result>>
            [] got.t = "found" ->
                 /\ pc' = "method2"
                 /\ idx' = 1
                 /\ workflow_data' = got.v
                 /\ result' = result
            [] got.t = "raise" ->
                 /\ ReturnNone
                 /\ UNCHANGED <<idx, workflow_data>>
  /\ UNCHANGED <<workflow_id, response, title>>

\* lines 83-87: the position of the first dict entry holding "workflow", 0 if none
FirstWorkflowEntry(items) ==
  IF \E k \in 1..Len(items) : items[k].t = "dict" /\ Has(items[k], "workflow")
  THEN CHOOSE k \in 1..Len(items) :
         /\ items[k].t = "dict" /\ Has(items[k], "workflow")
         /\ \A j \in 1..(k - 1) : ~(items[j].t = "dict" /\ Has(items[j], "workflow"))
  ELSE 0

\* lines 77-89 on one script: the payload it assigns, None when it assigns
\* nothing (skipped, no match, no data, no entry, or an exception caught at 88)
BlobB(script) ==
  IF script.string.t = "none" \/ ~script.string.n.seen THEN None
  ELSE LET m == ReSearch(script.string.n) IN
       IF m.t = "none" THEN None
       ELSE LET r == JsonLoads(m) IN
            IF ~r.ok THEN None
            ELSE LET has == In("data", r.v) IN
                 IF ~has.ok \/ ~has.v \/ r.v.t # "dict" THEN None
                 ELSE LET it == Iter(Item(r.v, "data")) IN
                      IF ~it.ok THEN None
                      ELSE LET k == FirstWorkflowEntry(it.v) IN
                           IF k = 0 THEN None ELSE Found(Item(it.v[k], "workflow"))

\* lines 75-89: the guard on entry, then one iteration of the loop over the
\* scripts; the break of line 87 leaves the inner loop only
Method2 ==
  /\ pc = "method2"
  /\ IF (idx = 1 /\ Truthy(workflow_data)) \/ idx > Len(script_tags)
     THEN /\ pc' = "method3"
          /\ idx' = 1
          /\ workflow_data' = workflow_data
          /\ result' = result
     ELSE LET got == BlobB(script_tags[idx]) IN
          CASE got.t = "none" ->
                 /\ pc' = pc
                 /\ idx' = idx + 1
                 /\ UNCHANGED <<workflow_data, result>>
            [] got.t = "found" ->
                 /\ pc' = pc
                 /\ idx' = idx + 1
                 /\ workflow_data' = got.v
                 /\ result' = result
            [] got.t = "raise" ->
                 /\ ReturnNone
                 /\ UNCHANGED <<idx, workflow_data>>
  /\ UNCHANGED <<workflow_id, response, title>>

\* line 93: soup.find, the first script of the linked-data type, 0 if none
FirstLd(scripts) ==
  IF \E k \in 1..Len(scripts) : scripts[k].type = "application/ld+json"
  THEN CHOOSE k \in 1..Len(scripts) :
         /\ scripts[k].type = "application/ld+json"
         /\ \A j \in 1..(k - 1) : scripts[j].type # "application/ld+json"
  ELSE 0

\* lines 93-101: the payload of the linked-data block, None when there is no
\* block, no mainEntity.code, or an exception caught at line 100
LinkedData(scripts) ==
  LET k == FirstLd(scripts) IN
  IF k = 0 THEN None
  ELSE IF scripts[k].string.t = "none" THEN None
  ELSE LET ld == JsonLoads(scripts[k].string.json) IN
       IF ~ld.ok THEN None
       ELSE LET has == In("mainEntity", ld.v) IN
            IF ~has.ok \/ ~has.v \/ ld.v.t # "dict" THEN None
            ELSE LET me == Item(ld.v, "mainEntity")
                     hc == In("code", me)
                 IN IF ~hc.ok \/ ~hc.v \/ me.t # "dict" THEN None
                    ELSE LET r == JsonLoads(Item(me, "code")) IN
                         IF r.ok THEN Found(r.v) ELSE None

\* lines 92-101
Method3 ==
  /\ pc = "method3"
  /\ IF Truthy(workflow_data)
     THEN /\ pc' = "metadata"
          /\ UNCHANGED <<workflow_data, result>>
     ELSE LET got == LinkedData(script_tags) IN
          CASE got.t = "none" ->
                 /\ pc' = "metadata"
                 /\ UNCHANGED <<workflow_data, result>>
            [] got.t = "found" ->
                 /\ pc' = "metadata"
                 /\ workflow_data' = got.v
                 /\ result' = result
            [] got.t = "raise" ->
                 /\ ReturnNone
                 /\ workflow_data' = workflow_data
  /\ UNCHANGED <<workflow_id, response, idx, title>>

\* lines 104, 110-115
PageTitle(id, title_tag) ==
  IF title_tag.t = "title" /\ title_tag.suffix
  THEN title_tag.name
  ELSE "Workflow " \o IdStr(id)

\* lines 104-130
ExtractMetadata ==
  /\ pc = "metadata"
  /\ title' = PageTitle(workflow_id, response.page.title)
  /\ pc' = "fallback"
  /\ UNCHANGED <<workflow_id, response, idx, workflow_data, result>>

\* lines 133-135; int() raising in the generator is caught at line 205
SyntheticFallback ==
  /\ pc = "fallback"
  /\ IF Truthy(workflow_data)
     THEN /\ pc' = "nodes"
          /\ UNCHANGED <<workflow_data, result>>
     ELSE \E num_nodes \in MinNodes..MaxNodes :
            \E types \in TypeDraws(num_nodes) :
              LET g == generate_synthetic_workflow(workflow_id, num_nodes, types) IN
              IF g.ok
              THEN /\ workflow_data' = SetItem(g.v, "name", Str(title))
                   /\ pc' = "nodes"
                   /\ result' = result
              ELSE /\ ReturnNone
                   /\ workflow_data' = workflow_data
  /\ UNCHANGED <<workflow_id, response, idx, title>>

\* lines 138-154
EnhanceNodesStep ==
  /\ pc = "nodes"
  /\ \E seed \in UuidSeeds :
       LET r == EnhanceNodes(workflow_data, seed) IN
       IF r.ok
       THEN /\ workflow_data' = r.v
            /\ pc' = "connections"
            /\ result' = result
       ELSE /\ ReturnNone
            /\ workflow_data' = workflow_data
  /\ UNCHANGED <<workflow_id, response, idx, title>>

\* lines 157-174
EnhanceConnectionsStep ==
  /\ pc = "connections"
  /\ LET r == EnhanceConnections(workflow_data) IN
     IF r.ok
     THEN /\ workflow_data' = r.v
          /\ pc' = "assemble"
          /\ result' = result
     ELSE /\ ReturnNone
          /\ workflow_data' = workflow_data
  /\ UNCHANGED <<workflow_id, response, idx, title>>

\* lines 177-203
AssembleStep ==
  /\ pc = "assemble"
  /\ LET r == Assemble(workflow_id, title, workflow_data) IN
     IF r.ok THEN pc' = "done" /\ result' = r.v ELSE ReturnNone
  /\ UNCHANGED <<workflow_id, response, idx, workflow_data, title>>

Next ==
  \/ Fetch
  \/ Method1
  \/ Method2
  \/ Method3
  \/ ExtractMetadata
  \/ SyntheticFallback
  \/ EnhanceNodesStep
  \/ EnhanceConnectionsStep
  \/ AssembleStep

Spec == Init /\ [][Next]_vars

\* ------------------------------------------------------------ properties
FetchedOk == response.kind = "response" /\ response.status = 200
ValidId == PyInt(workflow_id).ok
Returned == pc = "done" /\ result.t = "record"

\* what the page holds, read off the page alone
HasBody(script) == script.string.t = "body"
IsLd(script) == script.type = "application/ld+json"
\* a well-formed, non-empty object literal assigned to window.__WORKFLOW__
ValidBlobA(script) ==
  /\ HasBody(script) /\ script.string.w.seen
  /\ script.string.w.assign # "none"
  /\ script.string.w.literal.parse.t = "dict"
  /\ Truthy(script.string.w.literal.parse)
\* the pattern of line 66 captures the whole literal and it is well-formed
YieldsA(script) ==
  /\ HasBody(script) /\ script.string.w.seen
  /\ script.string.w.assign = "end"
  /\ script.string.w.literal.parse.t # "badjson"
\* the assignment is there and the strategy cannot read a payload from it
FailsA(script) == HasBody(script) /\ script.string.w.seen /\ ~YieldsA(script)
YieldsB(script) ==
  /\ HasBody(script) /\ script.string.n.seen
  /\ script.string.n.assign = "end"
  /\ LET st == script.string.n.literal.parse IN
     /\ st.t = "dict" /\ Has(st, "data")
     /\ Item(st, "data").t = "list"
     /\ \E k \in 1..Len(Item(st, "data").items) :
          LET e == Item(st, "data").items[k] IN e.t = "dict" /\ Has(e, "workflow")
FailsB(script) == HasBody(script) /\ script.string.n.seen /\ ~YieldsB(script)
ValidLd(script) ==
  /\ IsLd(script) /\ HasBody(script)
  /\ LET ld == script.string.json.parse IN
     /\ ld.t = "dict" /\ Has(ld, "mainEntity")
     /\ LET me == Item(ld, "mainEntity") IN
        /\ me.t = "dict" /\ Has(me, "code")
        /\ Item(me, "code").t = "text"
        /\ Item(me, "code").parse.t # "badjson"
FailsLd(scripts) == FirstLd(scripts) # 0 /\ ~ValidLd(scripts[FirstLd(scripts)])
FirstValidBlobA(scripts) ==
  CHOOSE k \in 1..Len(scripts) :
    ValidBlobA(scripts[k]) /\ \A j \in 1..(k - 1) : ~ValidBlobA(scripts[j])
\* a payload as the generator builds it for this identifier
IsSynthetic(wd) ==
  /\ wd.t = "dict"
  /\ Has(wd, "active") /\ Has(wd, "settings")
  /\ Has(wd, "id") /\ Item(wd, "id") = Str(IdStr(workflow_id))
  /\ Has(wd, "nodes") /\ Item(wd, "nodes").t = "list"
  /\ Has(wd, "connections")

\* C1: for a valid identifier and a page fetched with status 200, the call
\* returns a record (id, name, workflow, stats all there), never None.
C1_AlwaysRecord ==
  (pc = "done" /\ FetchedOk /\ ValidId) =>
    /\ result.t = "record"
    /\ result.id = workflow_id
    /\ result.workflow.t = "dict"
    /\ result.stats.nodeCount >= 0 /\ result.stats.connectionCount >= 0
    /\ result.stats.hasCustomNodes \in BOOLEAN

\* C2: when the page holds a valid (well-formed, non-empty) window.__WORKFLOW__
\* object and a valid linked-data block with mainEntity.code, the returned
\* workflow is the normalised content of the window.__WORKFLOW__ object.
C2_BlobAWins ==
  ( /\ Returned /\ FetchedOk
    /\ \E k \in 1..Len(script_tags) : ValidBlobA(script_tags[k])
    /\ \E k \in 1..Len(script_tags) : ValidLd(script_tags[k]) )
  => \E seed \in UuidSeeds :
       Normalize(script_tags[FirstValidBlobA(script_tags)].string.w.literal.parse, seed)
         = Ok(result.workflow)

\* no script of the page yields a payload, and at least one strategy fails
Barren(script) == ~YieldsA(script) /\ ~YieldsB(script) /\ ~ValidLd(script)
OnlyFailing(scripts) ==
  /\ \A k \in 1..Len(scripts) : Barren(scripts[k])
  /\ \E k \in 1..Len(scripts) :
       FailsA(scripts[k]) \/ FailsB(scripts[k]) \/ (IsLd(scripts[k]) /\ HasBody(scripts[k]))

C3_Step ==
  /\ (pc = "method1" /\ idx <= Len(script_tags) /\ FailsA(script_tags[idx]))
       => (pc' = "method1" /\ idx' = idx + 1 /\ workflow_data' = workflow_data)
  /\ (pc = "method2" /\ ~(idx = 1 /\ Truthy(workflow_data))
        /\ idx <= Len(script_tags) /\ FailsB(script_tags[idx]))
       => (pc' = "method2" /\ idx' = idx + 1 /\ workflow_data' = workflow_data)
  /\ (pc = "method3" /\ ~Truthy(workflow_data) /\ FailsLd(script_tags))
       => (pc' = "metadata" /\ workflow_data' = workflow_data)
C3_End ==
  (pc = "done" /\ FetchedOk /\ ValidId /\ OnlyFailing(script_tags))
    => (result.t = "record" /\ IsSynthetic(result.workflow))

\* C3: a block a strategy cannot read (malformed JSON, a missing key) leaves
\* the payload as it was and the pipeline moves on without returning; a page
\* that holds only such blocks ends in a record built by the synthetic fallback.
C3_LocalFailureAdvances == [][C3_Step]_vars /\ [](C3_End)

C3_Witness ==
  /\ Returned /\ FetchedOk /\ OnlyFailing(script_tags)
  /\ IsSynthetic(result.workflow)
  /\ \E k \in 1..Len(script_tags) :
       FailsA(script_tags[k]) /\ script_tags[k].string.w.assign = "inner"

C4_End ==
  (pc = "done" /\ FetchedOk /\ IsSynthetic(workflow_data))
    => (result.t = "record" /\ result.workflow = workflow_data)
C4_StepAnyId ==
  (pc = "fallback" /\ ~Truthy(workflow_data))
    => (pc' = "nodes" /\ IsSynthetic(workflow_data'))
C4_StepNumericId ==
  (pc = "fallback" /\ ~Truthy(workflow_data) /\ ValidId)
    => (pc' = "nodes" /\ IsSynthetic(workflow_data'))

\* C4 as stated: whenever no strategy produced a payload, the generator is
\* called and a record holding its workflow is returned, for any identifier.
C4_AnyIdentifier == [][C4_StepAnyId]_vars /\ [](C4_End)

\* C4 amended: the same, for every identifier that int() accepts.
C4_NumericIdentifier == [][C4_StepNumericId]_vars /\ [](C4_End)

C4_Witness ==
  /\ Returned /\ FetchedOk /\ ValidId
  /\ IsSynthetic(workflow_data) /\ result.workflow = workflow_data
  /\ Len(script_tags) > 0

\* the page has no embedded state and no linked-data block
NoEmbeddedData(scripts) ==
  \A k \in 1..Len(scripts) :
    /\ ~IsLd(scripts[k])
    /\ HasBody(scripts[k]) => (~scripts[k].string.w.seen /\ ~scripts[k].string.n.seen)

\* node i is the source of exactly one entry, to node i+1, of type main and
\* index 0, for every node that has a successor; there is no other source
LinearChain(wf) ==
  LET nodes == Item(wf, "nodes").items
      conns == Item(wf, "connections").entries
  IN /\ Len(conns) = Len(nodes) - 1
     /\ \A i \in 1..Len(conns) :
          /\ Str(conns[i].k) = Item(nodes[i], "id")
          /\ conns[i].v.t = "list" /\ Len(conns[i].v.items) = 1
          /\ Item(conns[i].v.items[1], "node") = Item(nodes[i + 1], "id")
          /\ Item(conns[i].v.items[1], "type") = Str("main")
          /\ Item(conns[i].v.items[1], "index") = Num(0)
     /\ \A i, j \in 1..Len(nodes) :
          Item(nodes[i], "id") = Item(nodes[j], "id") => i = j

\* C5: for a page with no embedded data and no linked-data block and a numeric
\* identifier, the record's workflow has 3 to 6 nodes and its connections are
\* the linear chain node i -> node i+1 (type main, index 0) and nothing else.
C5_FallbackChain ==
  (pc = "done" /\ FetchedOk /\ ValidId /\ NoEmbeddedData(script_tags))
    => /\ result.t = "record"
       /\ Has(result.workflow, "nodes") /\ Has(result.workflow, "connections")
       /\ Len(Item(result.workflow, "nodes").items) \in 3..6
       /\ LinearChain(result.workflow)

C5_Witness ==
  /\ Returned /\ FetchedOk /\ ValidId /\ NoEmbeddedData(script_tags)
  /\ Len(script_tags) > 0
  /\ Len(Item(result.workflow, "nodes").items) = 6
  /\ Len(Item(result.workflow, "connections").entries) = 5

\* C6: a second normalisation pass over the normalised payload changes nothing.
C6_Idempotent ==
  (pc = "assemble") =>
    \A seed \in UuidSeeds : Normalize(workflow_data, seed) = Ok(workflow_data)

\* the entries of all target lists, as (source position, entry position) pairs
ConnectionSlots(wf) ==
  LET conns == Get(wf, "connections", Dict(<<>>)).entries IN
  UNION { { <<s, k>> : k \in 1..Len(conns[s].v.items) } : s \in 1..Len(conns) }

\* C7: in a returned record, stats.nodeCount is the length of workflow.nodes
\* and stats.connectionCount is the number of entries over all source keys.
C7_DerivedStats ==
  Returned =>
    /\ result.stats.nodeCount =
         (IF Has(result.workflow, "nodes")
          THEN Len(Item(result.workflow, "nodes").items) ELSE 0)
    /\ result.stats.connectionCount = Cardinality(ConnectionSlots(result.workflow))

C7_Witness ==
  /\ Returned /\ Has(result.workflow, "connections")
  /\ result.stats.nodeCount = 1
  /\ result.stats.connectionCount = 3
  /\ Len(Item(result.workflow, "connections").entries) = 2

NodeKeys == <<"id", "name", "type", "parameters", "position", "metadata">>
NodeMetadataKeys == <<"description", "displayName", "version", "isCustom", "credentials">>

\* C8: in a returned record every node has a non-empty id, a name, a type, a
\* parameters map, a 2-element position and a metadata object with its five keys.
C8_NodeInvariant ==
  (Returned /\ Has(result.workflow, "nodes")) =>
    \A i \in 1..Len(Item(result.workflow, "nodes").items) :
      LET node == Item(result.workflow, "nodes").items[i] IN
      /\ \A f \in 1..Len(NodeKeys) : Has(node, NodeKeys[f])
      /\ Truthy(Item(node, "id"))
      /\ Item(node, "parameters").t = "dict"
      /\ Item(node, "position").t = "list" /\ Len(Item(node, "position").items) = 2
      /\ Item(node, "metadata").t = "dict"
      /\ \A f \in 1..Len(NodeMetadataKeys) : Has(Item(node, "metadata"), NodeMetadataKeys[f])

ConnectionKeys == <<"node", "type", "index", "sourceOutput", "targetInput", "metadata">>

\* entry new is entry old with its six fields, each the old value or its default
C9_Entry(old, new) ==
  /\ Len(new.entries) = Len(ConnectionKeys)
  /\ \A f \in 1..Len(ConnectionKeys) : new.entries[f].k = ConnectionKeys[f]
  /\ Item(new, "node") = Get(old, "node", Str(""))
  /\ Item(new, "type") = Get(old, "type", Str("main"))
  /\ Item(new, "index") = Get(old, "index", Num(0))
  /\ Item(new, "sourceOutput") = Get(old, "sourceOutput", Str("main"))
  /\ Item(new, "targetInput") = Get(old, "targetInput", Str("main"))
  /\ Item(new, "metadata").t = "dict"
  /\ Has(Item(new, "metadata"), "description") /\ Has(Item(new, "metadata"), "condition")

C9_Step ==
  (pc = "connections" /\ pc' = "assemble" /\ Has(workflow_data, "connections")) =>
    LET old == Item(workflow_data, "connections").entries
        new == Item(workflow_data', "connections").entries
    IN /\ Len(new) = Len(old)
       /\ \A s \in 1..Len(old) :
            /\ new[s].k = old[s].k
            /\ new[s].v.t = "list"
            /\ Len(new[s].v.items) = Len(Iter(old[s].v).v)
            /\ \A k \in 1..Len(new[s].v.items) :
                 C9_Entry(Iter(old[s].v).v[k], new[s].v.items[k])
C9_End ==
  (Returned /\ Has(result.workflow, "connections")) =>
    LET conns == Item(result.workflow, "connections").entries IN
    \A s \in 1..Len(conns) : \A k \in 1..Len(conns[s].v.items) :
      \A f \in 1..Len(ConnectionKeys) : Has(conns[s].v.items[k], ConnectionKeys[f])

\* C9: the connection pass keeps the source keys and the entries of each target
\* list in their order and gives every entry its six fields, an absent one its
\* default (type main, index 0, ports main); so has every entry of a record.
C9_ConnectionInvariant == [][C9_Step]_vars /\ [](C9_End)

C9_Witness ==
  /\ Returned /\ Has(result.workflow, "connections")
  /\ LET conns == Item(result.workflow, "connections").entries IN
     /\ Len(conns) = 2
     /\ conns[1].k = "n2" /\ conns[2].k = "n1"
     /\ Len(conns[1].v.items) = 2
     /\ Item(conns[1].v.items[1], "type") = Str("error")
     /\ Item(conns[1].v.items[2], "type") = Str("main")
     /\ Item(conns[1].v.items[2], "sourceOutput") = Str("main")

FirstBlobB(scripts) ==
  CHOOSE k \in 1..Len(scripts) :
    BlobB(scripts[k]).t = "found" /\ \A j \in 1..(k - 1) : BlobB(scripts[j]).t # "found"

\* C10: when strategy 1 produced nothing, the payload strategy 2 leaves is the
\* workflow of the first data entry holding one, from the first script that
\* yields one; no later script replaces it.
C10_FirstScriptWins ==
  ( /\ pc = "method3"
    /\ \A k \in 1..Len(script_tags) : BlobA(script_tags[k]).t = "none"
    /\ \E k \in 1..Len(script_tags) : BlobB(script_tags[k]).t = "found" )
  => workflow_data = BlobB(script_tags[FirstBlobB(script_tags)]).v

====
